---------------------------- MODULE Spec2Model ----------------------------
(***************************************************************************)
(* A model of noaa_esrl_brw_daily_file_splitter.py: the script reads one   *)
(* whitespace-delimited hourly observation file, replaces three sentinel   *)
(* values by NaN, derives a date and a timestamp per row, groups the rows  *)
(* by date and, for every date, writes a CSV file and a four-panel chart.  *)
(*                                                                         *)
(* Numbers with one decimal are kept as integers counting tenths, so that  *)
(* -999.9 is -9999 and -99 is -990; a float cell is a record with a nan    *)
(* flag, because NaN compares unequal to every number and to itself.       *)
(***************************************************************************)
EXTENDS Integers, Sequences, FiniteSets, TLC

VARIABLES
    input,      \* the input file as it lies on disk (never written)
    run,        \* 1 for the first execution of the script, 2 for the second
    pc,         \* the statement the script is about to execute
    raisedAt,   \* the statement that raised, "none" while nothing has
    dirs,       \* the directories that exist under the working directory
    csvFiles,   \* output_directory: file name -> content
    pngFiles,   \* figure_directory: file name -> figure title
    df,         \* the pandas.DataFrame, a sequence of rows
    groups,     \* gb.groups.items(): sequence of [date, indices]
    k,          \* number of items of gb.groups the loop has finished
    data,       \* the dict data: date_key -> DataFrame of the date
    log,        \* paths this execution created or wrote, in order
    csvAfter1   \* csvFiles as the first execution left them

vars == <<input, run, pc, raisedAt, dirs, csvFiles, pngFiles, df, groups, k,
          data, log, csvAfter1>>

-----------------------------------------------------------------------------
(* Bounds of the model *)

\* The input file is made of at most MaxSegs runs of consecutive lines.
MaxSegs == 3

-----------------------------------------------------------------------------
(* Values *)

NaN == [nan |-> TRUE, v |-> 0]

Tenths(n) == [nan |-> FALSE, v |-> n]

\* The == of floats: NaN is equal to nothing.
FloatEq(a, b) == ~a.nan /\ ~b.nan /\ a.v = b.v

Range(s) == {s[i] : i \in DOMAIN s}

COLUMN_NAMES ==
    << "station", "year", "month", "day", "hour", "wind_direction",
       "wind_speed", "wind_steadiness", "pressure", "temperature_at_2m",
       "temperature_at_10m", "temperature_at_top", "relative_humidity",
       "precipitation" >>

\* t = np.arange(1, 25): the hour axis of every chart.
t == [i \in 1..24 |-> i]

output_directory == "met_brw_insitu_daily"

figure_directory == "figures"

-----------------------------------------------------------------------------
(* The input files the model runs the script on.  A file is either missing *)
(* or a sequence of segments; a segment is n consecutive hourly lines of   *)
(* one (year, month, day), hours 0, 1, ...  The readings of the lines go   *)
(* round four kinds (sentinels, ordinary, sentinels in the wrong columns,  *)
(* NA tokens), and the shape says whether the last line has 14 fields, one *)
(* field fewer or one more.                                                *)

DateA == <<2016, 1, 2>>
DateB == <<2015, 12, 31>>
DateC == <<2016, 1, 31>>
DateX == <<2016, 4, 31>>       \* April has 30 days

SegChoices ==
    {[ymd |-> d, n |-> n] : d \in {DateA, DateB}, n \in {1, Len(t)}}
        \cup {[ymd |-> DateC, n |-> 1], [ymd |-> DateX, n |-> 1]}

Shapes == {"full", "short", "long"}

InputFiles ==
    {[missing |-> TRUE, segs |-> <<>>, shape |-> "full"]}
        \cup {[missing |-> FALSE, segs |-> s, shape |-> p] :
                s \in UNION {[1..n -> SegChoices] : n \in 1..MaxSegs},
                p \in Shapes}

\* The five readings that vary from line to line: wind_direction, pressure,
\* temperature_at_top, relative_humidity, precipitation.
Ordinary == <<Tenths(1800), Tenths(10132), Tenths(-245), Tenths(800), Tenths(0)>>

Readings(i) ==
    CASE i % 4 = 1 ->
            <<Tenths(1800), Tenths(10132), Tenths(-9999), Tenths(-990), Tenths(-990)>>
      [] i % 4 = 3 ->
            <<Tenths(-990), Tenths(-9999), Tenths(-990), Tenths(-9999), Tenths(-9999)>>
      [] i % 4 = 0 ->
            <<NaN, Tenths(10132), NaN, Tenths(800), Tenths(0)>>
      [] OTHER -> Ordinary

Line(ymd, hour, c) ==
    << "BRW", ymd[1], ymd[2], ymd[3], hour, c[1], Tenths(42), Tenths(1000),
       c[2], Tenths(-251), Tenths(-248), c[3], c[4], c[5] >>

RECURSIVE SegLines(_, _)
SegLines(segs, i) ==
    IF i > Len(segs) THEN <<>>
    ELSE [h \in 1..segs[i].n |-> [ymd |-> segs[i].ymd, hour |-> h - 1]]
            \o SegLines(segs, i + 1)

\* The lines of the file: each a sequence of whitespace-separated fields.
FileLines(f) ==
    LET ls == SegLines(f.segs, 1)
        n  == Len(ls)
        full(i) == Line(ls[i].ymd, ls[i].hour, Readings(i))
    IN  [i \in 1..n |->
            IF i = n /\ n >= 2 /\ f.shape = "short"
                THEN SubSeq(full(i), 1, Len(COLUMN_NAMES) - 1)
            ELSE IF i = n /\ n >= 2 /\ f.shape = "long"
                THEN Append(full(i), Tenths(0))
            ELSE full(i)]

-----------------------------------------------------------------------------
(* pd.read_csv(filename, names = COLUMN_NAMES, delim_whitespace = True) *)

\* A plausible slip: over-long lines let through (on_bad_lines = "warn").
ParserErrorNever(lines) == FALSE

\* The tokenizer takes the first line's field count as the expected one and
\* raises "Expected n fields, saw m" on a later line that has more.
ParserError(lines) == \E i \in 2..Len(lines) : Len(lines[i]) > Len(lines[1])

\* A line with fewer fields is padded: the missing trailing cells are NaN.
Field(line, i) == IF i <= Len(line) THEN line[i] ELSE NaN

\* The fields of a line are given the column names by position.
Row(line) ==
    [station            |-> Field(line, 1),
     year               |-> Field(line, 2),
     month              |-> Field(line, 3),
     day                |-> Field(line, 4),
     hour               |-> Field(line, 5),
     wind_direction     |-> Field(line, 6),
     wind_speed         |-> Field(line, 7),
     wind_steadiness    |-> Field(line, 8),
     pressure           |-> Field(line, 9),
     temperature_at_2m  |-> Field(line, 10),
     temperature_at_10m |-> Field(line, 11),
     temperature_at_top |-> Field(line, 12),
     relative_humidity  |-> Field(line, 13),
     precipitation      |-> Field(line, 14)]

read_csv(lines) == [i \in DOMAIN lines |-> Row(lines[i])]

ReadRaises(f) == f.missing \/ ParserError(FileLines(f))

-----------------------------------------------------------------------------
(* df.loc[df[col] == sentinel, col] = np.nan *)

\* A plausible slip: the mask taken with <= instead of ==.
SetNaNWhereAtMost(rows, col, sentinel) ==
    [i \in DOMAIN rows |->
        IF ~rows[i][col].nan /\ rows[i][col].v <= sentinel.v
            THEN [rows[i] EXCEPT ![col] = NaN]
            ELSE rows[i]]

SetNaNWhere(rows, col, sentinel) ==
    [i \in DOMAIN rows |->
        IF FloatEq(rows[i][col], sentinel)
            THEN [rows[i] EXCEPT ![col] = NaN]
            ELSE rows[i]]

\* -999.9, -99 and -99 of lines 97-99, in tenths.
CleanSentinels(rows) ==
    SetNaNWhere(
        SetNaNWhere(
            SetNaNWhere(rows, "temperature_at_top", Tenths(-9999)),
            "relative_humidity", Tenths(-990)),
        "precipitation", Tenths(-990))

-----------------------------------------------------------------------------
(* pd.to_datetime(df[["year", "month", "day"]]) and with "hour" *)

IsLeap(y) == (y % 4 = 0 /\ y % 100 # 0) \/ y % 400 = 0

DaysInMonth(y, m) ==
    IF m = 2 THEN (IF IsLeap(y) THEN 29 ELSE 28)
    ELSE IF m \in {4, 6, 9, 11} THEN 30
    ELSE 31

ValidDate(y, m, d) == m \in 1..12 /\ d >= 1 /\ d <= DaysInMonth(y, m)

\* A plausible slip: a lenient conversion (errors = "coerce") never raises.
AssembleLenient(rows) == FALSE

\* to_datetime raises ("cannot assemble the datetimes") on one bad row.
AssembleRaises(rows) ==
    \E i \in DOMAIN rows : ~ValidDate(rows[i].year, rows[i].month, rows[i].day)

DateOf(r) == <<r.year, r.month, r.day>>

\* The hours are added to the date as a timedelta; within 0..23 the day
\* stays the same.
TimestampOf(r) == <<r.year, r.month, r.day, r.hour>>

WithDates(rows) ==
    [i \in DOMAIN rows |->
        rows[i] @@ [date |-> DateOf(rows[i]), timestamp |-> TimestampOf(rows[i])]]

-----------------------------------------------------------------------------
(* gb = df.groupby("date"); gb.groups.items() *)

DateLess(a, b) ==
    \/ a[1] < b[1]
    \/ a[1] = b[1] /\ a[2] < b[2]
    \/ a[1] = b[1] /\ a[2] = b[2] /\ a[3] < b[3]

RECURSIVE Sorted(_)
Sorted(S) ==
    IF S = {} THEN <<>>
    ELSE LET m == CHOOSE x \in S : \A y \in S \ {x} : DateLess(x, y)
         IN  <<m>> \o Sorted(S \ {m})

RECURSIVE FirstSeen(_, _)
FirstSeen(rows, i) ==
    IF i > Len(rows) THEN <<>>
    ELSE IF \E j \in 1..(i - 1) : rows[j].date = rows[i].date
        THEN FirstSeen(rows, i + 1)
        ELSE <<rows[i].date>> \o FirstSeen(rows, i + 1)

\* A plausible slip: groupby(..., sort = False) keeps the keys as first seen.
GroupKeysUnsorted(rows) == FirstSeen(rows, 1)

\* groupby sorts the group keys (sort = True is the default).
GroupKeys(rows) == Sorted({rows[i].date : i \in DOMAIN rows})

Positions(rows) == [i \in DOMAIN rows |-> i]

\* A plausible slip: the row labels of a group in descending order.
GroupIndicesReversed(rows, d) ==
    LET up == SelectSeq(Positions(rows), LAMBDA i : rows[i].date = d)
    IN  [j \in DOMAIN up |-> up[Len(up) + 1 - j]]

\* A plausible slip: the rows matched on the day of the month alone.
GroupIndicesByDay(rows, d) ==
    SelectSeq(Positions(rows), LAMBDA i : rows[i].day = d[3])

\* The row labels of the group of date d, ascending.
GroupIndices(rows, d) == SelectSeq(Positions(rows), LAMBDA i : rows[i].date = d)

Groups(rows) ==
    LET keys == GroupKeys(rows)
    IN  [j \in DOMAIN keys |->
            [date |-> keys[j], indices |-> GroupIndices(rows, keys[j])]]

-----------------------------------------------------------------------------
(* The body of the loop over the dates *)

Pad(n, width) ==
    IF width = 4 /\ n < 1000 THEN "0" \o ToString(n)
    ELSE IF width = 2 /\ n < 10 THEN "0" \o ToString(n)
    ELSE ToString(n)

\* date.strftime("%Y-%m-%d")
strftime(d) == Pad(d[1], 4) \o "-" \o Pad(d[2], 2) \o "-" \o Pad(d[3], 2)

output_filename(date_key) == date_key \o "_met_brw_insitu_daily.csv"

figure_filename(date_key) == date_key \o ".png"

Join(dir, name) == dir \o "/" \o name

\* df.iloc[indices].reset_index(drop = True)
iloc(rows, indices) == [j \in DOMAIN indices |-> rows[indices[j]]]

\* to_csv(path, index = False): the header, then one line per row.
CsvContent(rows) == [header |-> COLUMN_NAMES \o <<"date", "timestamp">>, rows |-> rows]

\* A plausible slip: the file opened in append mode (mode = "a").
WriteFileAppend(files, name, content) ==
    [n \in DOMAIN files \cup {name} |->
        IF n # name THEN files[n]
        ELSE IF name \in DOMAIN files
            THEN [header |-> files[n].header, rows |-> files[n].rows \o content.rows]
            ELSE content]

\* Opening a file for writing truncates it: the old content is replaced.
WriteFile(files, name, content) ==
    [n \in DOMAIN files \cup {name} |-> IF n = name THEN content ELSE files[n]]

\* ax.plot(t, y) raises when x and y differ in their first dimension.
PlotRaises(rows) == Len(rows) # Len(t)

\* plt.savefig(figure_filepath): the image carries the figure's title.
SaveFig(files, name, title) ==
    [n \in DOMAIN files \cup {name} |-> IF n = name THEN title ELSE files[n]]

\* data[date_key] = ...
SetItem(dict, key, value) ==
    [n \in DOMAIN dict \cup {key} |-> IF n = key THEN value ELSE dict[n]]

Empty == <<>>

-----------------------------------------------------------------------------
(* The script, statement by statement *)

Init ==
    /\ input \in InputFiles
    /\ run = 1
    /\ pc = "mkdir_output"
    /\ raisedAt = "none"
    /\ dirs = {}
    /\ csvFiles = Empty
    /\ pngFiles = Empty
    /\ df = <<>>
    /\ groups = <<>>
    /\ k = 0
    /\ data = Empty
    /\ log = <<>>
    /\ csvAfter1 = Empty

\* if not os.path.exists(output_directory): os.mkdir(output_directory)
MkdirOutput ==
    /\ pc = "mkdir_output"
    /\ IF output_directory \notin dirs
          THEN /\ dirs' = dirs \cup {output_directory}
               /\ log' = Append(log, output_directory)
          ELSE UNCHANGED <<dirs, log>>
    /\ pc' = "mkdir_figure"
    /\ UNCHANGED <<input, run, raisedAt, csvFiles, pngFiles, df, groups, k,
                   data, csvAfter1>>

\* if not os.path.exists(figure_directory): os.mkdir(figure_directory)
MkdirFigure ==
    /\ pc = "mkdir_figure"
    /\ IF figure_directory \notin dirs
          THEN /\ dirs' = dirs \cup {figure_directory}
               /\ log' = Append(log, figure_directory)
          ELSE UNCHANGED <<dirs, log>>
    /\ pc' = "read_csv"
    /\ UNCHANGED <<input, run, raisedAt, csvFiles, pngFiles, df, groups, k,
                   data, csvAfter1>>

\* df = pd.read_csv(...)
ReadCsv ==
    /\ pc = "read_csv"
    /\ IF ReadRaises(input)
          THEN /\ pc' = "aborted"
               /\ raisedAt' = "read_csv"
               /\ UNCHANGED df
          ELSE /\ pc' = "clean"
               /\ df' = read_csv(FileLines(input))
               /\ UNCHANGED raisedAt
    /\ UNCHANGED <<input, run, dirs, csvFiles, pngFiles, groups, k, data,
                   log, csvAfter1>>

\* The three df.loc[...] = np.nan statements.
Clean ==
    /\ pc = "clean"
    /\ df' = CleanSentinels(df)
    /\ pc' = "to_datetime"
    /\ UNCHANGED <<input, run, raisedAt, dirs, csvFiles, pngFiles, groups, k,
                   data, log, csvAfter1>>

\* df["date"] = pd.to_datetime(...); df["timestamp"] = pd.to_datetime(...)
ToDatetime ==
    /\ pc = "to_datetime"
    /\ IF AssembleRaises(df)
          THEN /\ pc' = "aborted"
               /\ raisedAt' = "to_datetime"
               /\ UNCHANGED df
          ELSE /\ pc' = "groupby"
               /\ df' = WithDates(df)
               /\ UNCHANGED raisedAt
    /\ UNCHANGED <<input, run, dirs, csvFiles, pngFiles, groups, k, data,
                   log, csvAfter1>>

\* gb = df.groupby("date"); data = {}; the for statement takes the items.
GroupBy ==
    /\ pc = "groupby"
    /\ groups' = Groups(df)
    /\ data' = Empty
    /\ k' = 0
    /\ pc' = IF Len(Groups(df)) = 0 THEN "done" ELSE "to_csv"
    /\ UNCHANGED <<input, run, raisedAt, dirs, csvFiles, pngFiles, df, log,
                   csvAfter1>>

\* The date the loop is at.
date_key == strftime(groups[k + 1].date)

\* Lines 114-121: the names, data[date_key] = ..., to_csv.
ToCsv ==
    /\ pc = "to_csv"
    /\ LET bucket == iloc(df, groups[k + 1].indices)
       IN  /\ data' = SetItem(data, date_key, bucket)
           /\ csvFiles' = WriteFile(csvFiles, output_filename(date_key),
                                    CsvContent(bucket))
    /\ log' = Append(log, Join(output_directory, output_filename(date_key)))
    /\ pc' = "plot"
    /\ UNCHANGED <<input, run, raisedAt, dirs, pngFiles, df, groups, k,
                   csvAfter1>>

\* A plausible slip: the date's CSV removed again when its chart fails.
PlotWithRollback ==
    /\ pc = "plot"
    /\ IF PlotRaises(data[date_key])
          THEN /\ pc' = "aborted"
               /\ raisedAt' = "plot"
               /\ csvFiles' = [n \in DOMAIN csvFiles \ {output_filename(date_key)}
                                 |-> csvFiles[n]]
               /\ UNCHANGED <<pngFiles, log, k>>
          ELSE /\ pngFiles' = SaveFig(pngFiles, figure_filename(date_key),
                                      date_key \o " NOAA ESRL BRW Data")
               /\ log' = Append(log, Join(figure_directory, figure_filename(date_key)))
               /\ k' = k + 1
               /\ pc' = IF k + 1 = Len(groups) THEN "done" ELSE "to_csv"
               /\ UNCHANGED <<raisedAt, csvFiles>>
    /\ UNCHANGED <<input, run, dirs, df, groups, data, csvAfter1>>

\* Lines 123-161: the figure, the six plot calls, savefig, close.
Plot ==
    /\ pc = "plot"
    /\ IF PlotRaises(data[date_key])
          THEN /\ pc' = "aborted"
               /\ raisedAt' = "plot"
               /\ UNCHANGED <<pngFiles, log, k>>
          ELSE /\ pngFiles' = SaveFig(pngFiles, figure_filename(date_key),
                                      date_key \o " NOAA ESRL BRW Data")
               /\ log' = Append(log, Join(figure_directory, figure_filename(date_key)))
               /\ k' = k + 1
               /\ pc' = IF k + 1 = Len(groups) THEN "done" ELSE "to_csv"
               /\ UNCHANGED raisedAt
    /\ UNCHANGED <<input, run, dirs, csvFiles, df, groups, data, csvAfter1>>

\* The script is started once more: a new process over the same input file
\* and the same working directory.
Rerun ==
    /\ pc \in {"done", "aborted"}
    /\ run = 1
    /\ run' = 2
    /\ pc' = "mkdir_output"
    /\ raisedAt' = "none"
    /\ df' = <<>>
    /\ groups' = <<>>
    /\ k' = 0
    /\ data' = Empty
    /\ log' = <<>>
    /\ csvAfter1' = csvFiles
    /\ UNCHANGED <<input, dirs, csvFiles, pngFiles>>

Next ==
    \/ MkdirOutput
    \/ MkdirFigure
    \/ ReadCsv
    \/ Clean
    \/ ToDatetime
    \/ GroupBy
    \/ ToCsv
    \/ Plot
    \/ Rerun

Spec == Init /\ [][Next]_vars

-----------------------------------------------------------------------------
(* Notions the properties below share *)

\* The table as read_csv returns it for the input file.
Parsed == read_csv(FileLines(input))

\* The input file is missing or has a line of more than 14 fields.
InputUnreadable ==
    \/ input.missing
    \/ LET lines == FileLines(input)
       IN  \E i \in DOMAIN lines : Len(lines[i]) > Len(COLUMN_NAMES)

RowDate(r) == <<r.year, r.month, r.day>>

InputHasInvalidDate ==
    /\ ~InputUnreadable
    /\ LET P == Parsed
       IN  \E i \in DOMAIN P : ~ValidDate(P[i].year, P[i].month, P[i].day)

Ended == pc \in {"done", "aborted"}

\* The sentinels have been replaced in df.
Cleaned == pc \in {"to_datetime", "groupby", "to_csv", "plot", "done"}
              \/ raisedAt \in {"to_datetime", "plot"}

\* The rows have been grouped: gb.groups exists and df carries the dates.
Grouped == pc \in {"to_csv", "plot", "done"} \/ raisedAt = "plot"

CsvPath(d) == Join(output_directory, output_filename(strftime(d)))

PngPath(d) == Join(figure_directory, figure_filename(strftime(d)))

InLog(p) == \E i \in DOMAIN log : log[i] = p

Before(p, q) == \E i, j \in DOMAIN log : i < j /\ log[i] = p /\ log[j] = q

\* The item of gb.groups at position j has left the loop body.
StepLeft(j) == j <= k \/ (j = k + 1 /\ pc = "aborted" /\ raisedAt = "plot")

FloatColumns ==
    {"wind_direction", "wind_speed", "wind_steadiness", "pressure",
     "temperature_at_2m", "temperature_at_10m", "temperature_at_top",
     "relative_humidity", "precipitation"}

\* A cell of column c that parsing left as x held the column's sentinel.
HeldSentinel(c, x) ==
    \/ c = "temperature_at_top" /\ FloatEq(x, Tenths(-9999))
    \/ c = "relative_humidity" /\ FloatEq(x, Tenths(-990))
    \/ c = "precipitation" /\ FloatEq(x, Tenths(-990))

-----------------------------------------------------------------------------
(* C1 *)

\* C1: for every input whose rows all parse and carry valid dates, when the
\* run has ended the output directory holds exactly one CSV file per distinct
\* (year, month, day) of the input, named <YYYY-MM-DD>_met_brw_insitu_daily.csv,
\* with as many data rows as the date has input rows.
C1_OneCsvPerDate ==
    (Ended /\ ~InputUnreadable /\ ~InputHasInvalidDate) =>
        LET P == Parsed
            dates == {RowDate(P[i]) : i \in DOMAIN P}
        IN  /\ DOMAIN csvFiles = {output_filename(strftime(d)) : d \in dates}
            /\ \A d \in dates :
                  Len(csvFiles[output_filename(strftime(d))].rows)
                      = Cardinality({i \in DOMAIN P : RowDate(P[i]) = d})

-----------------------------------------------------------------------------
(* C2 *)

\* C2: grouping by date is a partition of the table: every row label is in
\* exactly one group, the group keyed by the date built from the row's own
\* year, month and day, and the groups' labels one after the other are a
\* permutation of the row labels; a bucket holds rows of its own date only.
C2_GroupsPartition ==
    Grouped =>
        /\ \A i \in DOMAIN df :
              /\ Cardinality({j \in DOMAIN groups :
                                 i \in Range(groups[j].indices)}) = 1
              /\ \A j \in DOMAIN groups :
                    i \in Range(groups[j].indices) =>
                        groups[j].date = <<df[i].year, df[i].month, df[i].day>>
        /\ \A j \in DOMAIN groups :
              /\ Range(groups[j].indices) \subseteq DOMAIN df
              /\ Cardinality(Range(groups[j].indices)) = Len(groups[j].indices)
        /\ \A key \in DOMAIN data : \A r \in Range(data[key]) :
              strftime(<<r.year, r.month, r.day>>) = key

\* The rows of one date lie apart in the file and two dates have been grouped.
C2_Witness ==
    /\ Grouped
    /\ Len(groups) >= 2
    /\ \E j \in DOMAIN groups : \E a, b \in Range(groups[j].indices) :
          \E c \in DOMAIN df : a < c /\ c < b /\ c \notin Range(groups[j].indices)

-----------------------------------------------------------------------------
(* C3 *)

\* C3 as stated: after cleaning a cell is NaN if and only if it is in one of
\* the three columns and held that column's sentinel, and every other cell
\* has the value it had after parsing.
C3_AbsentIffSentinel ==
    Cleaned =>
        LET P == Parsed
        IN  \A i \in DOMAIN df : \A c \in FloatColumns :
                /\ df[i][c].nan <=> HeldSentinel(c, P[i][c])
                /\ ~HeldSentinel(c, P[i][c]) => df[i][c] = P[i][c]

\* C3 amended: the cleaner changes exactly the sentinel cells: a cell that
\* held its column's sentinel is NaN, every other cell of every column is
\* what parsing left there (so a cell that parsing left NaN is NaN still).
C3_CleanerChangesExactlySentinels ==
    Cleaned =>
        LET P == Parsed
        IN  /\ Len(df) = Len(P)
            /\ \A i \in DOMAIN df :
                  /\ \A c \in FloatColumns :
                        IF HeldSentinel(c, P[i][c]) THEN df[i][c] = NaN
                        ELSE df[i][c] = P[i][c]
                  /\ \A c \in Range(COLUMN_NAMES) \ FloatColumns :
                        df[i][c] = P[i][c]

\* The three sentinels of a row have been replaced by NaN.
C3_Witness ==
    /\ pc = "to_datetime"
    /\ LET P == Parsed
       IN  \E i \in DOMAIN df :
              /\ HeldSentinel("temperature_at_top", P[i].temperature_at_top)
              /\ HeldSentinel("relative_humidity", P[i].relative_humidity)
              /\ HeldSentinel("precipitation", P[i].precipitation)
              /\ df[i].temperature_at_top.nan
              /\ df[i].relative_humidity.nan
              /\ df[i].precipitation.nan
              /\ i + 1 \in DOMAIN df
              /\ df[i + 1].temperature_at_top = Tenths(-245)

-----------------------------------------------------------------------------
(* C4 *)

\* C4: within every date bucket and every written CSV the rows stand in the
\* order of the input file: the labels of a group ascend, and a bucket and a
\* CSV file hold exactly the rows of their date, in the order of the table.
C4_BucketKeepsFileOrder ==
    Grouped =>
        /\ \A j \in DOMAIN groups : \A a, b \in DOMAIN groups[j].indices :
              a < b => groups[j].indices[a] < groups[j].indices[b]
        /\ \A key \in DOMAIN data :
              data[key] = SelectSeq(df, LAMBDA r : strftime(RowDate(r)) = key)
        /\ \A name \in DOMAIN csvFiles :
              csvFiles[name].rows
                  = SelectSeq(df, LAMBDA r : output_filename(strftime(RowDate(r))) = name)

\* A CSV has been written for a date whose rows are interleaved with rows
\* of another date, and it holds rows that differ.
C4_Witness ==
    /\ Grouped
    /\ \E j \in DOMAIN groups :
          /\ InLog(CsvPath(groups[j].date))
          /\ \E a, b \in Range(groups[j].indices) :
                /\ \E c \in DOMAIN df :
                      a < c /\ c < b /\ c \notin Range(groups[j].indices)
                /\ df[a] # df[b]

-----------------------------------------------------------------------------
(* C5 *)

\* C5: for every date bucket whose row count is not 24 the chart step still
\* completes: once the loop body has been left for the bucket, its image is
\* in the figure directory and the run has not aborted.
C5_ChartRendersAnySize ==
    \A j \in DOMAIN groups :
        (Len(groups[j].indices) # Len(t) /\ StepLeft(j)) =>
            /\ figure_filename(strftime(groups[j].date)) \in DOMAIN pngFiles
            /\ pc # "aborted"

-----------------------------------------------------------------------------
(* C6 *)

-----------------------------------------------------------------------------
(* C7 *)

\* C7: if any row has an impossible (year, month, day), the run fails at the
\* date derivation: no row gets a date, no group and no bucket is formed and
\* no CSV or image file is written, for the dates of the valid rows either.
C7_InvalidDateFailsRun ==
    (InputHasInvalidDate
        /\ pc \notin {"mkdir_output", "mkdir_figure", "read_csv", "clean",
                      "to_datetime"}) =>
        /\ pc = "aborted"
        /\ raisedAt = "to_datetime"
        /\ \A i \in DOMAIN df : DOMAIN df[i] = Range(COLUMN_NAMES)
        /\ groups = <<>>
        /\ data = Empty
        /\ csvFiles = Empty
        /\ pngFiles = Empty
        /\ Range(log) \subseteq {output_directory, figure_directory}

\* The run has failed on a table that has rows of valid dates as well.
C7_Witness ==
    /\ pc = "aborted"
    /\ raisedAt = "to_datetime"
    /\ \E i, j \in DOMAIN df :
          /\ ~ValidDate(df[i].year, df[i].month, df[i].day)
          /\ ValidDate(df[j].year, df[j].month, df[j].day)
    /\ csvFiles = Empty

-----------------------------------------------------------------------------
(* C8 *)

\* The row at which date d is first seen in the table.
FirstRow(d) == CHOOSE i \in DOMAIN df :
                   RowDate(df[i]) = d /\ \A j \in 1..(i - 1) : RowDate(df[j]) # d

\* C8 as stated: the buckets are processed in first-seen order: if date A
\* first appears in the input before date B, the CSV of A is written before
\* the CSV of B.
C8_FirstSeenOrder ==
    Grouped =>
        \A a, b \in {RowDate(df[i]) : i \in DOMAIN df} :
            (FirstRow(a) < FirstRow(b) /\ InLog(CsvPath(b))) =>
                Before(CsvPath(a), CsvPath(b))

\* C8 amended: the buckets are processed in ascending order of their dates:
\* if date A is earlier than date B, the CSV of A is written before the CSV
\* of B, wherever the two dates stand in the input.
C8_AscendingDateOrder ==
    Grouped =>
        /\ \A a, b \in {RowDate(df[i]) : i \in DOMAIN df} :
              (DateLess(a, b) /\ InLog(CsvPath(b))) =>
                  Before(CsvPath(a), CsvPath(b))
        /\ \A i, j \in DOMAIN groups : i < j => DateLess(groups[i].date, groups[j].date)

\* Two CSV files have been written, the later date first in the input.
C8_Witness ==
    /\ Grouped
    /\ \E a, b \in {RowDate(df[i]) : i \in DOMAIN df} :
          /\ FirstRow(b) < FirstRow(a)
          /\ Before(CsvPath(a), CsvPath(b))

-----------------------------------------------------------------------------
(* C9 *)

\* C9: when the second of two runs over the same input and the same output
\* locations has ended, the output directory holds the same CSV files with
\* the same contents as after the first run, whether that run completed or
\* aborted part-way.
C9_SecondRunSameCsv ==
    (run = 2 /\ Ended) => csvFiles = csvAfter1

\* The second run has rewritten a file of the first and aborted like it.
C9_Witness ==
    /\ run = 2
    /\ pc = "aborted"
    /\ raisedAt = "plot"
    /\ k >= 1
    /\ \A j \in 1..(k + 1) :
          /\ InLog(CsvPath(groups[j].date))
          /\ output_filename(strftime(groups[j].date)) \in DOMAIN csvAfter1

-----------------------------------------------------------------------------
(* C10 *)

\* C10: in a bucket's step the CSV is written before the chart, and nothing
\* is rolled back: when the run fails in the chart step of the bucket at
\* position k + 1, the CSV and image of every bucket before it are on disk,
\* the bucket has its CSV but no image, and the run has written no CSV and
\* no image for any bucket after it.
C10_NoRollback ==
    /\ \A j \in DOMAIN groups :
          InLog(PngPath(groups[j].date)) =>
              Before(CsvPath(groups[j].date), PngPath(groups[j].date))
    /\ (pc = "aborted" /\ raisedAt = "plot") =>
          \A j \in DOMAIN groups :
              LET csv == output_filename(strftime(groups[j].date))
                  png == figure_filename(strftime(groups[j].date))
              IN  /\ j <= k =>
                        /\ csv \in DOMAIN csvFiles
                        /\ png \in DOMAIN pngFiles
                        /\ InLog(CsvPath(groups[j].date))
                        /\ InLog(PngPath(groups[j].date))
                  /\ j = k + 1 =>
                        /\ csv \in DOMAIN csvFiles
                        /\ InLog(CsvPath(groups[j].date))
                        /\ png \notin DOMAIN pngFiles
                        /\ ~InLog(PngPath(groups[j].date))
                  /\ j > k + 1 =>
                        /\ ~InLog(CsvPath(groups[j].date))
                        /\ ~InLog(PngPath(groups[j].date))

\* The chart of the second of three buckets has failed.
C10_Witness ==
    /\ pc = "aborted"
    /\ raisedAt = "plot"
    /\ k = 1
    /\ Len(groups) = 3

=============================================================================
